---- MODULE Spec2Model ----
(***************************************************************************)
(* Verification model of rtpipe (RT.py, parsesdm.py, parsecands.py).       *)
(*                                                                         *)
(* These specifications share this module:                                 *)
(*   Spec        pipeline(): the main process and the one-worker read pool *)
(*               (pipeline_dataprep), the two buffer locks, the candidate  *)
(*               files and cancellation.                                   *)
(*   SpecSearch  search(): the (dm, dt) trial loop of one segment, the     *)
(*               imaging chunks and the candidate map.                     *)
(*   SpecRead    calc_segment_times() and read_bdf_segment(): planned and  *)
(*               delivered number of integrations.                         *)
(*   SpecUtil    functions of the planner and of the candidate files.      *)
(*   SpecTrial   search() task by task: the dedispersion and the imaging   *)
(*               map of every trial and what they write.                   *)
(*   SpecFair    Spec without errors and interrupts, with fair scheduling. *)
(***************************************************************************)
EXTENDS Integers, Sequences, FiniteSets, TLC

(***************************************************************************)
(* Bounds                                                                  *)
(***************************************************************************)
\* d['nsegments'] of the pipeline specification
NSegments == 3

SegIds == 0 .. (NSegments - 1)

\* d has no 'segment' key (state fresh from set_pipeline)
NoSegment == -1

VARIABLES
    \* ---- pipeline() ----
    segments,     \* the segments argument, a list
    savecandsOpt, \* d['savecands']
    gainfile,     \* "absent" | "good" | "bad": os.path.exists and parse/apply outcome
    dseg,         \* d['segment'] of the main process' d (NoSegment: key absent)
    files,        \* candidate files, one per segment
    results,      \* the results dict: segment -> "pending" | "ready" | "error"
    jobq,         \* task queue of readpool (segments submitted, not yet taken)
    wpc,          \* position of the pool worker inside pipeline_dataprep
    wseg,         \* segment of the job the worker runs
    readbuf,      \* content of data_read_mem / u,v,w_read_mem
    workbuf,      \* content of data_mem / u,v,w_mem
    lockRead,     \* owner of data_read_mem's lock
    lockData,     \* owner of data_mem's lock
    mpc,          \* position of the main process inside pipeline
    subi,         \* index of the submission loop
    keys,         \* the list results.keys() the for loop iterates
    kpos,         \* position in keys
    cands,        \* value returned by the last search
    searched,     \* segments (d['segment']) whose search has started
    searchdone,   \* segments whose search has returned
    saved,        \* segments savecands has been executed for
    submitted,    \* segments handed to readpool.apply_async
    nprep,        \* per segment, the number of pipeline_dataprep runs started
    nsearch,      \* per segment, the number of search calls made for it
    \* ---- search() ----
    sReadints,    \* d['readints']
    sDatadelay,   \* d['datadelay'], one delay per entry of d['dmarr']
    sDtarr,       \* d['dtarr']
    sNchunk,      \* d['nchunk']
    sSegment,     \* d['segment']
    sSearchtype,  \* d['searchtype']
    sWork,        \* work-buf (data_mem), one entry per integration
    sResamp,      \* resamp-buf (data_resamp_mem), one entry per integration
    spc,          \* position inside search
    sDmind,       \* loop variable dmind (0-based, as in the code)
    sDtind,       \* loop variable dtind
    sRange,       \* <<nskip_dm, searchints>> of the current trial
    sImageresults,\* results of the imaging map: chunk -> feat of image1
    sCands,       \* the cands dict of search
    sReplaced,    \* an assignment cands[kk] = ... replaced an existing entry
    sSavecands,   \* d['savecands']
    sFile,        \* the objects pickled in the candidates file of the segment
    \* ---- calc_segment_times() and read_bdf_segment() ----
    rNints,       \* number of integrations of the scan (metadata d['nints'])
    rNskip,       \* d['nskip']
    rOverlap,     \* d['t_overlap'] / d['inttime']
    rNsegments,   \* d['nsegments']
    rTdown,       \* d['read_tdownsample']
    rpc,          \* position: planning, reading, assigning
    rReadints,    \* d['readints'] as calc_segment_times sets it
    rSegment,     \* segment handed to read_bdf_segment
    rNskipRead,   \* nskip handed to the reader
    rDelivered,   \* first dimension of the array read_bdf_segment returns
    rSpwReffreq,  \* d['spw_reffreq'], as ranks of the reference frequencies
    rSpwNchan,    \* d['spw_nchan']
    rChans,       \* channel axis of the array read_bdf_segment returns
    rMemLimit,    \* d['memory_limit'] in integrations of visibilities; 0: no key
    rScaleNum,    \* d['scale_nsegments']*d['inttime']/(fringetime - t_overlap)
    rScaleDen,    \*   as the fraction rScaleNum / rScaleDen
    \* ---- functions of the planner and of the candidate files ----
    uFn,          \* the function called
    upc,          \* position: called, returned, raised
    nRangex,      \* rangex of set_pipeline: round(uvoversample * urange)
    nRangey,      \* rangey
    nUvres,       \* d['uvres']
    nNpixx,       \* d['npixx_full']
    nNpixy,       \* d['npixy_full']
    dMindm,       \* mindm of calc_dmgrid, in steps of the trial grid (0.05)
    dMaxdm,       \* maxdm, in the same steps
    dGap,         \* the DM step at which the loss passes maxloss
    dGrid,        \* the list calc_dmgrid returns
    bNants,       \* d['nants']; the antennas are named by their position
    bBlarr,       \* d['blarr']
    gCandslist,   \* merge_segments: the segments that have a candidates file
    gNoiselist,   \* the segments that have a noise file
    gCleanup,     \* the cleanup argument
    gMergedCands, \* the merged candidates file of the scan
    gMergedNoise, \* the merged noise file of the scan
    \* ---- one search() call, task by task ----
    tNbl,         \* d['nbl']
    tNthread,     \* d['nthread']
    tReadints,    \* d['readints']
    tDatadelay,   \* d['datadelay']
    tDtarr,       \* d['dtarr']
    tNchunk,      \* d['nchunk']
    tSegment,     \* d['segment']
    tSearchtype,  \* d['searchtype']
    tWork,        \* work-buf (data_mem), one entry per baseline
    tWork0,       \* work-buf at the moment search was called
    tResamp,      \* resamp-buf, per baseline: source value, trial, shifted ints
    tpc,          \* position inside search
    tDmind,       \* loop variable dmind
    tDtind,       \* loop variable dtind
    tDedispDone,  \* tasks of the dedispersion map of the trial that returned
    tImageDone,   \* tasks of the imaging map of the trial that returned
    tBlWrites,    \* per baseline, the dedispersion tasks of the trial that wrote it
    tImaged,      \* <<chunk, integration, shifted>> imaged in the trial
    tWrites,      \* <<chunk, integration>> of resamp-buf written by image1
    tTrials,      \* the trials whose dedispersion has begun, in order
    tCollected,   \* the trials whose results were collected, in order
    mPkl,         \* merge_cands: the candidate keys of the file of each scan
    mFeatureind,  \* d['featureind'] of the state written
    mDicts,       \* the per-scan dictionaries of the state written
    mCands        \* the candidate keys written

pvars == <<segments, savecandsOpt, gainfile, dseg, files, results, jobq, wpc,
           wseg, readbuf, workbuf, lockRead, lockData, mpc, subi, keys, kpos,
           cands, searched, searchdone, saved, submitted, nprep, nsearch>>

svars == <<sReadints, sDatadelay, sDtarr, sNchunk, sSegment, sSearchtype,
           sWork, sResamp, spc, sDmind, sDtind, sRange, sImageresults, sCands,
           sReplaced, sSavecands, sFile>>

rvars == <<rNints, rNskip, rOverlap, rNsegments, rTdown, rpc, rReadints,
           rSegment, rNskipRead, rDelivered, rSpwReffreq, rSpwNchan, rChans,
           rMemLimit, rScaleNum, rScaleDen>>

nvars == <<nRangex, nRangey, nUvres, nNpixx, nNpixy>>

dvars == <<dMindm, dMaxdm, dGap, dGrid>>

bvars == <<bNants, bBlarr>>

mvars == <<mPkl, mFeatureind, mDicts, mCands>>

gvars == <<gCandslist, gNoiselist, gCleanup, gMergedCands, gMergedNoise>>

uvars == <<uFn, upc, nvars, dvars, bvars, mvars, gvars>>

tvars == <<tNbl, tNthread, tReadints, tDatadelay, tDtarr, tNchunk, tSegment,
           tSearchtype, tWork, tWork0, tResamp, tpc, tDmind, tDtind,
           tDedispDone, tImageDone, tBlWrites, tImaged, tWrites, tTrials,
           tCollected>>

vars == <<pvars, svars, rvars, uvars, tvars>>

\* what each specification leaves alone
pRest == <<svars, rvars, uvars, tvars>>
sRest == <<pvars, rvars, uvars, tvars>>
rRest == <<pvars, svars, uvars, tvars>>
uRest == <<pvars, svars, rvars, tvars>>
tRest == <<pvars, svars, rvars, uvars>>

(***************************************************************************)
(* Helpers                                                                 *)
(***************************************************************************)
Range(s) == {s[i] : i \in 1 .. Len(s)}

\* strictly increasing lists over SegIds, as handed to pipeline()
IsIncreasing(s) == \A i \in 1 .. (Len(s) - 1) : s[i] < s[i + 1]

SegmentLists ==
    {s \in UNION {[1 .. n -> SegIds] : n \in 1 .. NSegments} : IsIncreasing(s)}

RECURSIVE SortedSeq(_)
SortedSeq(S) ==
    IF S = {} THEN <<>>
    ELSE LET m == CHOOSE x \in S : \A y \in S : x <= y
         IN  <<m>> \o SortedSeq(S \ {m})

\* buffer contents: which segment's data, and what has been done to it
ZeroBuf == [seg |-> NoSegment, cal |-> FALSE, cond |-> FALSE]

\* candidate file contents
NoFile == [kind |-> "none", seg |-> NoSegment, data |-> NoSegment, empty |-> TRUE]
OtherFile == [kind |-> "other", seg |-> NoSegment, data |-> NoSegment, empty |-> FALSE]

NoCands == [seg |-> NoSegment, data |-> NoSegment, empty |-> TRUE, skipped |-> FALSE]

\* getcandsfile(d, segment): the segment whose file is named.
\* d['segment'] wins over the argument whenever the key is present.
getcandsfile(dsegment, segment) ==
    IF dsegment # NoSegment THEN dsegment
    ELSE IF segment >= 0 THEN segment
    ELSE NoSegment

exists(f) == f # NoSegment /\ files[f].kind # "none"

MainActive == mpc \in {"submit", "for", "lock", "search", "save"}

(***************************************************************************)
(* Initial state of pipeline()                                             *)
(***************************************************************************)
InitPipeline ==
    /\ segments \in SegmentLists
    /\ savecandsOpt \in BOOLEAN
    /\ gainfile \in {"absent", "good", "bad"}
    /\ dseg \in {NoSegment} \cup SegIds
    /\ files \in [SegIds -> {NoFile, OtherFile}]
    /\ results = [s \in {} |-> "pending"]
    /\ jobq = <<>>
    /\ wpc = "idle"
    /\ wseg = NoSegment
    /\ readbuf = ZeroBuf
    /\ workbuf = ZeroBuf
    /\ lockRead = "free"
    /\ lockData = "free"
    /\ mpc = "submit"
    /\ subi = 1
    /\ keys = <<>>
    /\ kpos = 1
    /\ cands = NoCands
    /\ searched = {}
    /\ searchdone = {}
    /\ saved = {}
    /\ submitted = {}
    /\ nprep = [s \in SegIds |-> 0]
    /\ nsearch = [s \in SegIds |-> 0]

(***************************************************************************)
(* pipeline(): the main process                                            *)
(***************************************************************************)
\* lines 70-76: one iteration of the submission loop
Submit ==
    /\ mpc = "submit"
    /\ subi <= Len(segments)
    /\ LET segment == segments[subi]
           candsfile == getcandsfile(dseg, segment)
       IN  IF savecandsOpt /\ exists(candsfile)
           THEN UNCHANGED <<results, jobq, submitted>>
           ELSE /\ results' = [s \in (DOMAIN results) \cup {segment} |->
                                 IF s = segment THEN "pending" ELSE results[s]]
                /\ jobq' = Append(jobq, segment)
                /\ submitted' = submitted \cup {segment}
    /\ subi' = subi + 1
    /\ UNCHANGED <<segments, savecandsOpt, gainfile, dseg, files, wpc, wseg,
                   readbuf, workbuf, lockRead, lockData, mpc, keys, kpos,
                   cands, searched, searchdone, saved>>
    /\ UNCHANGED <<nprep, nsearch>>
    /\ UNCHANGED pRest

\* line 79: while results.keys(), entered after the submission loop and after
\* every pass of the for loop
While ==
    /\ \/ mpc = "submit" /\ subi > Len(segments)
       \/ mpc = "for" /\ kpos > Len(keys)
    /\ IF DOMAIN results = {}
       THEN /\ mpc' = "done"
            /\ keys' = <<>>
       ELSE /\ mpc' = "for"
            /\ keys' = SortedSeq(DOMAIN results)
    /\ kpos' = 1
    /\ UNCHANGED <<segments, savecandsOpt, gainfile, dseg, files, results, jobq,
                   wpc, wseg, readbuf, workbuf, lockRead, lockData, subi,
                   cands, searched, searchdone, saved>>
    /\ UNCHANGED <<submitted, nprep, nsearch>>
    /\ UNCHANGED pRest

\* lines 80-86: one readiness poll of the for loop
Poll ==
    /\ mpc = "for"
    /\ kpos <= Len(keys)
    /\ LET segment == keys[kpos]
       IN  CASE results[segment] = "pending" ->
                  /\ kpos' = kpos + 1
                  /\ UNCHANGED <<results, dseg, mpc>>
             [] results[segment] = "ready" ->
                  /\ results' = [s \in (DOMAIN results) \ {segment} |-> results[s]]
                  /\ dseg' = segment
                  /\ mpc' = "lock"
                  /\ UNCHANGED kpos
             [] results[segment] = "error" ->
                  \* job.get() re-raises the exception of the prep job; it is no
                  \* KeyboardInterrupt, so it leaves pipeline()
                  /\ results' = [s \in (DOMAIN results) \ {segment} |-> results[s]]
                  /\ mpc' = "failed"
                  /\ UNCHANGED <<dseg, kpos>>
    /\ UNCHANGED <<segments, savecandsOpt, gainfile, files, jobq, wpc, wseg,
                   readbuf, workbuf, lockRead, lockData, subi, keys,
                   cands, searched, searchdone, saved>>
    /\ UNCHANGED <<submitted, nprep, nsearch>>
    /\ UNCHANGED pRest

\* lines 90, 105 and 321-329: the data lock is taken and search() is entered;
\* search tests the candidates file of d['segment'] first
SearchStart ==
    /\ mpc = "lock"
    /\ lockData = "free"
    /\ lockData' = "main"
    /\ mpc' = "search"
    /\ searched' = searched \cup {dseg}
    /\ nsearch' = [nsearch EXCEPT ![dseg] = @ + 1]
    /\ cands' = [seg |-> dseg, data |-> workbuf.seg, empty |-> TRUE,
                 skipped |-> savecandsOpt /\ exists(getcandsfile(dseg, -1))]
    /\ UNCHANGED <<segments, savecandsOpt, gainfile, dseg, files, results, jobq,
                   wpc, wseg, readbuf, workbuf, lockRead, subi, keys, kpos,
                   searchdone, saved>>
    /\ UNCHANGED <<submitted, nprep>>
    /\ UNCHANGED pRest

\* lines 329-373 and the end of the with block of line 90: search returns
SearchEnd ==
    /\ mpc = "search"
    /\ cands' = [cands EXCEPT !.data = workbuf.seg,
                              !.empty = cands.skipped \/ workbuf.seg = NoSegment]
    /\ searchdone' = searchdone \cup {dseg}
    /\ lockData' = "free"
    /\ IF savecandsOpt
       THEN mpc' = "save" /\ UNCHANGED kpos
       ELSE mpc' = "for" /\ kpos' = kpos + 1
    /\ UNCHANGED <<segments, savecandsOpt, gainfile, dseg, files, results, jobq,
                   wpc, wseg, readbuf, workbuf, lockRead, subi, keys,
                   searched, saved>>
    /\ UNCHANGED <<submitted, nprep, nsearch>>
    /\ UNCHANGED pRest

\* lines 108-111 and 1186-1192: savecands(d, cands)
Save ==
    /\ mpc = "save"
    /\ files' = [files EXCEPT ![getcandsfile(dseg, -1)] =
                    [kind |-> "pipeline", seg |-> dseg, data |-> cands.data,
                     empty |-> cands.empty]]
    /\ saved' = saved \cup {dseg}
    /\ mpc' = "for"
    /\ kpos' = kpos + 1
    /\ UNCHANGED <<segments, savecandsOpt, gainfile, dseg, results, jobq, wpc,
                   wseg, readbuf, workbuf, lockRead, lockData, subi, keys,
                   cands, searched, searchdone>>
    /\ UNCHANGED <<submitted, nprep, nsearch>>
    /\ UNCHANGED pRest

\* mutant of Interrupt: the handler writes what the interrupted search had found
Interrupt_SavesPartial ==
    /\ MainActive
    /\ mpc' = "aborted"
    /\ wpc' = "terminated"
    /\ lockData' = IF lockData = "main" THEN "free" ELSE lockData
    /\ IF mpc = "search"
       THEN /\ saved' = saved \cup {dseg}
            /\ files' = [files EXCEPT ![dseg] =
                            [kind |-> "pipeline", seg |-> dseg,
                             data |-> cands.data, empty |-> cands.empty]]
       ELSE UNCHANGED <<saved, files>>
    /\ UNCHANGED <<segments, savecandsOpt, gainfile, dseg, results, jobq,
                   wseg, readbuf, workbuf, lockRead, subi, keys, kpos,
                   cands, searched, searchdone>>
    /\ UNCHANGED <<submitted, nprep, nsearch>>
    /\ UNCHANGED pRest

\* lines 113-117: KeyboardInterrupt anywhere inside the try block
Interrupt ==
    /\ MainActive
    /\ mpc' = "aborted"
    /\ wpc' = "terminated"
    /\ lockData' = IF lockData = "main" THEN "free" ELSE lockData
    /\ UNCHANGED <<segments, savecandsOpt, gainfile, dseg, files, results, jobq,
                   wseg, readbuf, workbuf, lockRead, subi, keys, kpos,
                   cands, searched, searchdone, saved>>
    /\ UNCHANGED <<submitted, nprep, nsearch>>
    /\ UNCHANGED pRest

(***************************************************************************)
(* pipeline_dataprep(): the single worker of readpool                      *)
(***************************************************************************)
SetResult(segment, value) ==
    IF segment \in DOMAIN results
    THEN results' = [results EXCEPT ![segment] = value]
    ELSE UNCHANGED results

\* lines 123-148: the worker takes the next job, takes data_read_mem's lock and
\* reads the segment into read-buf
PrepRead ==
    /\ wpc = "idle"
    /\ jobq # <<>>
    /\ lockRead = "free"
    /\ wseg' = Head(jobq)
    /\ jobq' = Tail(jobq)
    /\ lockRead' = "worker"
    /\ readbuf' = [seg |-> Head(jobq), cal |-> FALSE, cond |-> FALSE]
    /\ wpc' = "read"
    /\ nprep' = [nprep EXCEPT ![Head(jobq)] = @ + 1]
    /\ UNCHANGED <<segments, savecandsOpt, gainfile, dseg, files, results,
                   workbuf, lockData, mpc, subi, keys, kpos, cands, searched,
                   searchdone, saved>>
    /\ UNCHANGED <<submitted, nsearch>>
    /\ UNCHANGED pRest

\* lines 154-178, the calibration, when it succeeds or is skipped, and then
\* lines 180-210: flagging, mean subtraction, noise, rephasing
PrepCondition ==
    /\ wpc = "read"
    /\ gainfile # "bad"
    /\ readbuf' = [readbuf EXCEPT !.cal = (gainfile = "good"), !.cond = TRUE]
    /\ wpc' = "cond"
    /\ UNCHANGED <<segments, savecandsOpt, gainfile, dseg, files, results, jobq,
                   wseg, workbuf, lockRead, lockData, mpc, subi, keys, kpos,
                   cands, searched, searchdone, saved>>
    /\ UNCHANGED <<submitted, nprep, nsearch>>
    /\ UNCHANGED pRest

\* lines 174-176: parsing or applying the gain file fails; the handler logs a
\* warning and re-raises, which leaves the with block (releasing data_read_mem's
\* lock) and ends the job with the exception as its result
PrepCalFails ==
    /\ wpc = "read"
    /\ gainfile = "bad"
    /\ lockRead' = "free"
    /\ SetResult(wseg, "error")
    /\ wpc' = "idle"
    /\ UNCHANGED <<segments, savecandsOpt, gainfile, dseg, files, jobq, wseg,
                   readbuf, workbuf, lockData, mpc, subi, keys, kpos, cands,
                   searched, searchdone, saved>>
    /\ UNCHANGED <<submitted, nprep, nsearch>>
    /\ UNCHANGED pRest

\* PrepCopy without waiting for data_mem's lock
PrepCopy_NoLock ==
    /\ wpc = "cond"
    /\ lockData' = "worker"
    /\ workbuf' = readbuf
    /\ wpc' = "copied"
    /\ UNCHANGED <<segments, savecandsOpt, gainfile, dseg, files, results, jobq,
                   wseg, readbuf, lockRead, mpc, subi, keys, kpos, cands,
                   searched, searchdone, saved>>
    /\ UNCHANGED <<submitted, nprep, nsearch>>
    /\ UNCHANGED pRest

\* lines 211-215: the worker takes data_mem's lock and copies read-buf
PrepCopy ==
    /\ wpc = "cond"
    /\ lockData = "free"
    /\ lockData' = "worker"
    /\ workbuf' = readbuf
    /\ wpc' = "copied"
    /\ UNCHANGED <<segments, savecandsOpt, gainfile, dseg, files, results, jobq,
                   wseg, readbuf, lockRead, mpc, subi, keys, kpos, cands,
                   searched, searchdone, saved>>
    /\ UNCHANGED <<submitted, nprep, nsearch>>
    /\ UNCHANGED pRest

\* PrepReturn that leaves data_mem's lock with the worker
PrepReturn_KeepsLock ==
    /\ wpc = "copied"
    /\ lockRead' = "free"
    /\ SetResult(wseg, "ready")
    /\ wpc' = "idle"
    /\ UNCHANGED <<segments, savecandsOpt, gainfile, dseg, files, jobq, wseg,
                   readbuf, workbuf, lockData, mpc, subi, keys, kpos, cands,
                   searched, searchdone, saved>>
    /\ UNCHANGED <<submitted, nprep, nsearch>>
    /\ UNCHANGED pRest

\* lines 215-219: both locks are released and d is returned: the job is ready
PrepReturn ==
    /\ wpc = "copied"
    /\ lockData' = "free"
    /\ lockRead' = "free"
    /\ SetResult(wseg, "ready")
    /\ wpc' = "idle"
    /\ UNCHANGED <<segments, savecandsOpt, gainfile, dseg, files, jobq, wseg,
                   readbuf, workbuf, mpc, subi, keys, kpos, cands, searched,
                   searchdone, saved>>
    /\ UNCHANGED <<submitted, nprep, nsearch>>
    /\ UNCHANGED pRest

(***************************************************************************)
(* Environment: another process (a second node working on the same scan)   *)
(* creates the candidates file of a segment while pipeline() runs          *)
(***************************************************************************)
OtherWriter ==
    /\ MainActive
    /\ savecandsOpt
    /\ \E s \in SegIds :
          /\ files[s].kind = "none"
          /\ files' = [files EXCEPT ![s] = OtherFile]
    /\ UNCHANGED <<segments, savecandsOpt, gainfile, dseg, results, jobq, wpc,
                   wseg, readbuf, workbuf, lockRead, lockData, mpc, subi, keys,
                   kpos, cands, searched, searchdone, saved>>
    /\ UNCHANGED <<submitted, nprep, nsearch>>
    /\ UNCHANGED pRest

(***************************************************************************)
(* search(): the trial loop of one segment                                 *)
(***************************************************************************)
\* largest d['readints'] of the search specification
MaxReadints == 3

\* largest entry of d['datadelay']
MaxDelay == 1

\* largest d['nchunk']
MaxChunk == 2

\* the d['dtarr'] grids tried
DtArrays == {<<1>>, <<2>>, <<1, 2>>}

\* d['datadelay'] for DM grids of one or two entries, in any order
DelayLists == UNION {[1 .. n -> 0 .. MaxDelay] : n \in 1 .. 2}

Searchtypes == {"image1", "image1snip", "image1stats", "image2", "image2w"}

\* set_pipeline, lines 629-637: the declared feature list of a searchtype
Features(searchtype) ==
    CASE searchtype = "image1" -> <<"snr1", "immax1", "l1", "m1">>
      [] searchtype = "image1snip" ->
            <<"snr1", "immax1", "l1", "m1", "im40", "spec20">>
      [] searchtype = "image1stats" ->
            <<"snr1", "immax1", "l1", "m1", "specstd", "specskew",
              "speckurtosis", "imskew", "imkurtosis">>
      [] searchtype \in {"image2", "image2w"} ->
            <<"snr1", "immax1", "l1", "m1", "snr2", "immax2", "l2", "m2">>

\* image1, lines 922-967: the features image1 has a branch for
Image1Features ==
    {"snr1", "immax1", "l1", "m1", "im40", "spec20", "specstd", "specskew",
     "speckurtosis", "imskew", "imkurtosis"}

\* image1, lines 921-969: ff holds one value per declared feature that one of
\* the branches matches (a value is written as the name of its feature)
Image1Assemble(features) ==
    SelectSeq(features, LAMBDA f : f \in Image1Features)

\* read_candidates, lines 28-31: the column read as the snr (1-based here)
SnrCol(features) ==
    IF \E i \in 1 .. Len(features) : features[i] = "snr2"
    THEN CHOOSE i \in 1 .. Len(features) : features[i] = "snr2"
    ELSE CHOOSE i \in 1 .. Len(features) : features[i] = "snr1"

\* Content of one integration of a buffer:
\*   0  zeros
\*   1  a peak that passes sigma_image1 in the first-stage image, whose
\*      full-resolution image stays below sigma_image2
\*   2  a peak that passes both thresholds
PassesStage1(c) == c >= 1
PassesStage2(c) == c = 2

MaxOf(S) == CHOOSE x \in S : \A y \in S : y <= x
MinOf(S) == CHOOSE x \in S : \A y \in S : x <= y

\* rtlib.dedisperse_resample on resamp-buf, which correct_dmdt has filled from
\* work-buf: integration j of the result is the block of dt integrations
\* starting at j*dt; blocks that need data beyond the buffer end stay zero
DedisperseResample(work, readints, delay, dt) ==
    [j \in 0 .. (readints - 1) |->
        IF (j + 1) * dt + delay <= readints
        THEN MaxOf({work[j * dt + k] : k \in 0 .. (dt - 1)})
        ELSE 0]

\* search, line 356
NskipDm(datadelay, dtarr, segment, dmind, dtind) ==
    ((datadelay[Len(datadelay)] - datadelay[dmind + 1]) \div dtarr[dtind + 1])
        * (IF segment # 0 THEN 1 ELSE 0)

\* search, line 357
Searchints(readints, datadelay, dtarr, segment, dmind, dtind) ==
    (readints - datadelay[dmind + 1]) \div dtarr[dtind + 1]
        - NskipDm(datadelay, dtarr, segment, dmind, dtind)

\* mutant of Irange: the chunks overlap by one integration
Irange_Overlap(nskip_dm, searchints, nchunk, chunk) ==
    <<nskip_dm + (searchints * chunk) \div nchunk,
      nskip_dm + (searchints * (chunk + 1)) \div nchunk + 1>>

\* search, line 361: the integration range (i0, i1) of one imaging chunk
Irange(nskip_dm, searchints, nchunk, chunk) ==
    <<nskip_dm + (searchints * chunk) \div nchunk,
      nskip_dm + (searchints * (chunk + 1)) \div nchunk>>

\* a Python slice bound on an axis of the given length
SliceBound(x, length) ==
    IF x < 0 THEN MaxOf({x + length, 0}) ELSE MinOf({x, length})

\* image1, lines 906-970, for the chunk irange = (i0, i1): the imager returns
\* the positions (candints, relative to the slice data_resamp[i0:i1]) of the
\* integrations whose peak passes sigma_image1; each becomes one entry of feat
image1(resamp, readints, features, segment, dt, dmind, dtind, beamnum, irange) ==
    LET i0 == irange[1]
        lo == SliceBound(irange[1], readints)
        hi == SliceBound(irange[2], readints)
        candints == {k - lo : k \in {x \in lo .. (hi - 1) : PassesStage1(resamp[x])}}
        candid(c) == <<segment, (i0 + c) * dt, dmind, dtind, beamnum>>
    IN  [kk \in {candid(c) : c \in candints} |->
            LET c == CHOOSE x \in candints : candid(x) = kk
            IN  [ff |-> Image1Assemble(features), content |-> resamp[lo + c]]]

EmptyDict == [kk \in {} |-> 0]

\* search, lines 365-367: cands[kk] = imageresult[kk] over the chunk results in
\* order; the second component tells whether an assignment hit an existing key
RECURSIVE Merge(_, _, _, _)
Merge(dict, replaced, imageresults, chunk) ==
    IF chunk \notin DOMAIN imageresults THEN <<dict, replaced>>
    ELSE LET feat == imageresults[chunk]
             merged == [kk \in (DOMAIN dict) \cup (DOMAIN feat) |->
                           IF kk \in DOMAIN feat THEN feat[kk] ELSE dict[kk]]
         IN  Merge(merged, replaced \/ (DOMAIN dict) \cap (DOMAIN feat) # {},
                   imageresults, chunk + 1)

InitSearch ==
    /\ sReadints \in 1 .. MaxReadints
    /\ sDatadelay \in DelayLists
    /\ sDtarr \in DtArrays
    /\ sNchunk \in 1 .. MaxChunk
    /\ sSegment \in {0, 1}
    /\ sSearchtype \in Searchtypes
    /\ sWork \in [0 .. (sReadints - 1) -> 0 .. 2]
    /\ sResamp = [j \in 0 .. (sReadints - 1) |-> 0]
    /\ spc = "start"
    /\ sDmind = 0
    /\ sDtind = 0
    /\ sRange = <<0, 0>>
    /\ sImageresults = EmptyDict
    /\ sCands = EmptyDict
    /\ sReplaced = FALSE
    \* savecands is varied for the one-stage search; no candidates file yet
    /\ sSavecands \in BOOLEAN
    /\ sSavecands => sSearchtype = "image1"
    /\ sFile = <<>>

\* the search specification is at rest while pipeline() is examined
SearchIdle ==
    /\ sReadints = 1
    /\ sDatadelay = <<0>>
    /\ sDtarr = <<1>>
    /\ sNchunk = 1
    /\ sSegment = 0
    /\ sSearchtype = "image1"
    /\ sWork = [j \in 0 .. 0 |-> 0]
    /\ sResamp = [j \in 0 .. 0 |-> 0]
    /\ spc = "idle"
    /\ sDmind = 0
    /\ sDtind = 0
    /\ sRange = <<0, 0>>
    /\ sImageresults = EmptyDict
    /\ sCands = EmptyDict
    /\ sReplaced = FALSE
    /\ sSavecands = FALSE
    /\ sFile = <<>>

\* mutant of SearchBegin: the trials are run whatever work-buf holds
SearchBegin_NoZeroTest ==
    /\ spc = "start"
    /\ IF sSavecands /\ sFile # <<>>
       THEN spc' = "done"
       ELSE spc' = "dedisperse"
    /\ UNCHANGED <<sReadints, sDatadelay, sDtarr, sNchunk, sSegment,
                   sSearchtype, sWork, sResamp, sDmind, sDtind, sRange,
                   sImageresults, sCands, sReplaced>>
    /\ UNCHANGED <<sSavecands, sFile>>
    /\ UNCHANGED sRest

\* lines 314-343: the test for an existing candidates file and the zero test
\* of work-buf
SearchBegin ==
    /\ spc = "start"
    /\ IF sSavecands /\ sFile # <<>>
       THEN spc' = "done"
       ELSE IF \E i \in DOMAIN sWork : sWork[i] # 0
       THEN spc' = "dedisperse"
       ELSE spc' = "done"
    /\ UNCHANGED <<sReadints, sDatadelay, sDtarr, sNchunk, sSegment,
                   sSearchtype, sWork, sResamp, sDmind, sDtind, sRange,
                   sImageresults, sCands, sReplaced>>
    /\ UNCHANGED <<sSavecands, sFile>>
    /\ UNCHANGED sRest

\* lines 347-358: the dedispersion map of the trial (correct_dmdt over all
\* baseline ranges) and the integration range of the trial
Dedisperse ==
    /\ spc = "dedisperse"
    /\ sResamp' = DedisperseResample(sWork, sReadints, sDatadelay[sDmind + 1],
                                     sDtarr[sDtind + 1])
    /\ sRange' = <<NskipDm(sDatadelay, sDtarr, sSegment, sDmind, sDtind),
                   Searchints(sReadints, sDatadelay, sDtarr, sSegment, sDmind,
                              sDtind)>>
    /\ sImageresults' = EmptyDict
    /\ spc' = "image"
    /\ UNCHANGED <<sReadints, sDatadelay, sDtarr, sNchunk, sSegment,
                   sSearchtype, sWork, sDmind, sDtind, sCands, sReplaced>>
    /\ UNCHANGED <<sSavecands, sFile>>
    /\ UNCHANGED sRest

\* lines 361-362: one task of the imaging map, image1 on one chunk
ImageChunk ==
    /\ spc = "image"
    /\ \E chunk \in (0 .. (sNchunk - 1)) \ DOMAIN sImageresults :
          sImageresults' =
              [c \in (DOMAIN sImageresults) \cup {chunk} |->
                  IF c = chunk
                  THEN image1(sResamp, sReadints, Features(sSearchtype),
                              sSegment, sDtarr[sDtind + 1], sDmind, sDtind, 0,
                              Irange(sRange[1], sRange[2], sNchunk, chunk))
                  ELSE sImageresults[c]]
    /\ UNCHANGED <<sReadints, sDatadelay, sDtarr, sNchunk, sSegment,
                   sSearchtype, sWork, sResamp, spc, sDmind, sDtind, sRange,
                   sCands, sReplaced>>
    /\ UNCHANGED <<sSavecands, sFile>>
    /\ UNCHANGED sRest

\* lines 344-345 and 365-367: the results of the trial are collected and the
\* loops advance (dt inner, dm outer)
Collect ==
    /\ spc = "image"
    /\ DOMAIN sImageresults = 0 .. (sNchunk - 1)
    /\ LET m == Merge(sCands, sReplaced, sImageresults, 0)
       IN  /\ sCands' = m[1]
           /\ sReplaced' = m[2]
    /\ IF sDtind + 1 < Len(sDtarr)
       THEN /\ sDtind' = sDtind + 1
            /\ UNCHANGED sDmind
            /\ spc' = "dedisperse"
       ELSE IF sDmind + 1 < Len(sDatadelay)
       THEN /\ sDtind' = 0
            /\ sDmind' = sDmind + 1
            /\ spc' = "dedisperse"
       ELSE /\ UNCHANGED <<sDmind, sDtind>>
            /\ spc' = "done"
    /\ UNCHANGED <<sReadints, sDatadelay, sDtarr, sNchunk, sSegment,
                   sSearchtype, sWork, sResamp, sRange, sImageresults>>
    /\ UNCHANGED <<sSavecands, sFile>>
    /\ UNCHANGED sRest

\* pipeline, lines 107-111, and savecands, lines 1186-1192: what pipeline()
\* does with the map search returned
SaveCands ==
    /\ spc = "done"
    /\ IF sSavecands
       THEN sFile' = <<"d", sCands>>
       ELSE UNCHANGED sFile
    /\ spc' = "end"
    /\ UNCHANGED <<sReadints, sDatadelay, sDtarr, sNchunk, sSegment,
                   sSearchtype, sWork, sResamp, sDmind, sDtind, sRange,
                   sImageresults, sCands, sReplaced, sSavecands>>
    /\ UNCHANGED sRest

NextSearch ==
    \/ SearchBegin
    \/ Dedisperse
    \/ ImageChunk
    \/ Collect
    \/ SaveCands

(***************************************************************************)
(* calc_segment_times() and read_bdf_segment()                             *)
(*                                                                         *)
(* Times are counted in integrations from the start of the scan and kept   *)
(* as exact fractions with denominator nsegments; the conversions through  *)
(* MJD days and qa.time are taken as exact.                                *)
(***************************************************************************)
\* largest number of integrations of a scan
MaxNints == 6

\* largest d['nskip']
MaxNskip == 2

\* largest d['read_tdownsample']
MaxTdown == 3

\* numpy.round of num/den (den > 0): halves go to the even neighbour
RoundHalfEven(num, den) ==
    LET q == num \div den
        r == num % den
    IN  IF 2 * r < den THEN q
        ELSE IF 2 * r > den THEN q + 1
        ELSE IF q % 2 = 0 THEN q ELSE q + 1

\* Python 2 round() of num/den (den > 0): halves go away from zero
RoundHalfAway(num, den) ==
    LET q == num \div den
        r == num % den
    IN  IF 2 * r < den THEN q
        ELSE IF 2 * r > den THEN q + 1
        ELSE IF num >= 0 THEN q + 1 ELSE q

\* set_pipeline line 681 and calc_segment_times lines 790-791: with
\* d['nints'] = nints - nskip, the k-th entry of startdts, times nsegments
StartdtNum(nints, nskip, overlap, nsegments, k) ==
    nsegments * nskip + k * ((nints - nskip) - nskip - overlap)

\* lines 790-791: stopdts[k] - startdts[k], times nsegments (the same for
\* every segment)
SpanNum(nints, nskip, overlap, nsegments) ==
    nsegments * overlap + ((nints - nskip) - nskip - overlap)

\* lines 799-800: d['readints']; totaltimeread is nsegments spans
CalcReadints(nints, nskip, overlap, nsegments, tdown) ==
    RoundHalfEven(nsegments * SpanNum(nints, nskip, overlap, nsegments),
                  nsegments * nsegments * tdown)

\* read_bdf_segment line 166: integrations asked of the reader
BdfReadints(nints, nskip, overlap, nsegments) ==
    RoundHalfAway(SpanNum(nints, nskip, overlap, nsegments), nsegments)

\* read_bdf_segment line 167: integrations skipped by the reader
BdfNskip(nints, nskip, overlap, nsegments, segment) ==
    RoundHalfEven(StartdtNum(nints, nskip, overlap, nsegments, segment),
                  nsegments)

\* read_bdf_segment lines 174 and 186-202: the reader returns the integrations
\* asked for; time downsampling keeps sh[0]/read_tdownsample of them
BdfDelivered(readints, tdown) ==
    IF tdown > 1 THEN readints \div tdown ELSE readints

\* largest number of spectral windows
MaxSpw == 3

\* the channel counts of a spectral window that are tried
NchanChoices == {1, 2}

\* d['spw_reffreq'] as the ranks of the reference frequencies: every order of
\* 1 to MaxSpw windows
SpwOrders ==
    UNION {{s \in [1 .. n -> 0 .. (n - 1)] : Cardinality(Range(s)) = n} :
              n \in 1 .. MaxSpw}

\* the channel axis as the reader returns it: the windows in the order of the
\* file, each channel written as <<rank of its window, channel in the window>>
RECURSIVE BdfChans(_, _)
BdfChans(spw_reffreq, spw_nchan) ==
    IF spw_reffreq = <<>> THEN <<>>
    ELSE [c \in 1 .. spw_nchan[1] |-> <<spw_reffreq[1], c>>]
            \o BdfChans(Tail(spw_reffreq), Tail(spw_nchan))

\* read_bdf_segment line 177
Dfreq(spw_reffreq) ==
    [i \in 1 .. (Len(spw_reffreq) - 1) |-> spw_reffreq[i + 1] - spw_reffreq[i]]

\* line 178: n.all(dfreq > 0)
AllPositive(dfreq) == \A i \in 1 .. Len(dfreq) : dfreq[i] > 0

\* lines 181 and 183: n.where(dfreq < 0)[0], as 1-based positions
NegativeJumps(dfreq) == {i \in 1 .. Len(dfreq) : dfreq[i] < 0}

RECURSIVE SumTo(_, _)
SumTo(s, k) == IF k = 0 THEN 0 ELSE s[k] + SumTo(s, k - 1)

\* line 183: the channels of the windows up to and including the one before
\* the negative jump
Rollch(spw_reffreq, spw_nchan) ==
    SumTo(spw_nchan, MinOf(NegativeJumps(Dfreq(spw_reffreq))))

\* line 184, n.roll(data, rollch, axis=2): the element at index i moves to
\* index (i + rollch) mod N
Roll(chans, shift) ==
    [i \in 1 .. Len(chans) |-> chans[((i - 1 - shift) % Len(chans)) + 1]]

\* the channels are in increasing frequency order
FreqSorted(chans) ==
    \A i \in 1 .. (Len(chans) - 1) :
        \/ chans[i][1] < chans[i + 1][1]
        \/ chans[i][1] = chans[i + 1][1] /\ chans[i][2] < chans[i + 1][2]

\* largest d['memory_limit'], in integrations of visibilities
MaxMemLimit == 2

\* stands for the largest float: a scale beyond it is inf
MaxFloat == 8

Abs(x) == IF x < 0 THEN -x ELSE x

\* Python int() of num/den (den > 0): truncation towards zero
IntTrunc(num, den) ==
    IF num >= 0 THEN num \div den ELSE -((-num) \div den)

\* set_pipeline, lines 696 and 704: max(1, min(d['nints'], int(scale*...)))
AutoChoice(nints, num, den) ==
    MaxOf({1, MinOf({nints, IntTrunc(num * nints, den)})})

\* calc_memory_footprint(d, visonly=True), lines 810-814, in the unit of one
\* integration of visibilities (headroom * nbl * nchan * npol * toGB)
Vismem(readints) == readints

\* the spw orders are varied with a fixed plan, the plans with spw in order
InitRead ==
    /\ rNints \in 1 .. MaxNints
    /\ rNskip \in 0 .. MaxNskip
    /\ rOverlap \in 0 .. MaxDelay
    /\ rNsegments \in 0 .. NSegments
    /\ rTdown \in 1 .. MaxTdown
    /\ rMemLimit \in 0 .. MaxMemLimit
    /\ rScaleNum \in {-1, 1}
    /\ rScaleDen \in {1, 2}
    /\ rSpwReffreq \in SpwOrders
    /\ rSpwNchan \in [1 .. Len(rSpwReffreq) -> NchanChoices]
    /\ \/ /\ rNsegments # 0
          /\ rMemLimit = 0
          /\ rScaleNum = 1
          /\ rScaleDen = 1
       \/ /\ rSpwReffreq = <<0>>
          /\ rSpwNchan = <<1>>
    /\ IF rNsegments # 0
       THEN \* every segment spans at least one integration
            /\ SpanNum(rNints, rNskip, rOverlap, rNsegments) >= rNsegments
            /\ rScaleNum = 1
            /\ rScaleDen = 1
       ELSE \* there is data to plan beyond the overlap
            (rNints - rNskip) - rNskip - rOverlap >= 1
    /\ rpc = "plan"
    /\ rReadints = 0
    /\ rSegment = NoSegment
    /\ rNskipRead = 0
    /\ rDelivered = 0
    /\ rChans = <<>>

\* the read specification is at rest while the others are examined
ReadIdle ==
    /\ rNints = 1
    /\ rNskip = 0
    /\ rOverlap = 0
    /\ rNsegments = 1
    /\ rTdown = 1
    /\ rMemLimit = 0
    /\ rScaleNum = 1
    /\ rScaleDen = 1
    /\ rpc = "idle"
    /\ rReadints = 0
    /\ rSegment = NoSegment
    /\ rNskipRead = 0
    /\ rDelivered = 0
    /\ rSpwReffreq = <<0>>
    /\ rSpwNchan = <<1>>
    /\ rChans = <<>>

\* calc_segment_times, lines 785-801
calc_segment_times ==
    /\ rpc = "plan"
    /\ rNsegments # 0
    /\ rReadints' = CalcReadints(rNints, rNskip, rOverlap, rNsegments, rTdown)
    /\ rpc' = IF rMemLimit # 0 THEN "check" ELSE "planned"
    /\ UNCHANGED <<rNints, rNskip, rOverlap, rNsegments, rTdown, rSegment,
                   rNskipRead, rDelivered, rSpwReffreq, rSpwNchan, rChans,
                   rMemLimit, rScaleNum, rScaleDen>>
    /\ UNCHANGED rRest

\* set_pipeline, lines 694-697: nsegments unset, the first automatic choice
AutoNsegments ==
    /\ rpc = "plan"
    /\ rNsegments = 0
    /\ LET nsegments == AutoChoice(rNints - rNskip, rScaleNum, rScaleDen)
       IN  /\ rNsegments' = nsegments
           /\ rReadints' = CalcReadints(rNints, rNskip, rOverlap, nsegments,
                                        rTdown)
    /\ rpc' = IF rMemLimit # 0 THEN "fitting" ELSE "planned"
    /\ UNCHANGED <<rNints, rNskip, rOverlap, rTdown, rSegment, rNskipRead,
                   rDelivered, rSpwReffreq, rSpwNchan, rChans, rMemLimit,
                   rScaleNum, rScaleDen>>
    /\ UNCHANGED rRest

\* set_pipeline, lines 701-706: one pass of the while loop. The scale is a
\* float: once it has grown beyond the largest float it is inf and int() of
\* line 704 raises OverflowError
FitIterate ==
    /\ rpc = "fitting"
    /\ Vismem(rReadints) > rMemLimit
    /\ LET num == rScaleNum * Vismem(rReadints)
           den == rScaleDen * rMemLimit
       IN  /\ rScaleNum' = num
           /\ rScaleDen' = den
           /\ IF Abs(num) > MaxFloat * den
              THEN /\ rpc' = "overflowerror"
                   /\ UNCHANGED <<rNsegments, rReadints>>
              ELSE LET nsegments == AutoChoice(rNints - rNskip, num, den)
                   IN  /\ rNsegments' = nsegments
                       /\ rReadints' = CalcReadints(rNints, rNskip, rOverlap,
                                                    nsegments, rTdown)
                       /\ rpc' = "fitting"
    /\ UNCHANGED <<rNints, rNskip, rOverlap, rTdown, rSegment, rNskipRead,
                   rDelivered, rSpwReffreq, rSpwNchan, rChans, rMemLimit>>
    /\ UNCHANGED rRest

\* set_pipeline, line 701 (the loop ends) and lines 737-739: the assert on the
\* visibility memory, the planner's only report that the plan does not fit
CheckMemory ==
    /\ \/ rpc = "check"
       \/ rpc = "fitting" /\ Vismem(rReadints) <= rMemLimit
    /\ rpc' = IF Vismem(rReadints) < rMemLimit THEN "planned"
              ELSE "planinfeasible"
    /\ UNCHANGED <<rNints, rNskip, rOverlap, rNsegments, rTdown, rReadints,
                   rSegment, rNskipRead, rDelivered, rSpwReffreq, rSpwNchan,
                   rChans, rMemLimit, rScaleNum, rScaleDen>>
    /\ UNCHANGED rRest

\* read_bdf_segment(d, segment), lines 162-202, for any segment of the plan
read_bdf_segment ==
    /\ rpc \in {"planned", "assigned", "valueerror", "assertionerror"}
    /\ \E segment \in 0 .. (rNsegments - 1) :
          /\ rSegment' = segment
          /\ rNskipRead' = BdfNskip(rNints, rNskip, rOverlap, rNsegments, segment)
    /\ IF AllPositive(Dfreq(rSpwReffreq))
       THEN \* spw in frequency order: the data are left as read
            /\ rChans' = BdfChans(rSpwReffreq, rSpwNchan)
            /\ rDelivered' = BdfDelivered(BdfReadints(rNints, rNskip, rOverlap,
                                                      rNsegments), rTdown)
            /\ rpc' = "read"
       ELSE IF Cardinality(NegativeJumps(Dfreq(rSpwReffreq))) # 1
       THEN \* line 181: the assert fails, nothing is returned
            /\ rChans' = <<>>
            /\ rDelivered' = 0
            /\ rpc' = "assertionerror"
       ELSE /\ rChans' = Roll(BdfChans(rSpwReffreq, rSpwNchan),
                              Rollch(rSpwReffreq, rSpwNchan))
            /\ rDelivered' = BdfDelivered(BdfReadints(rNints, rNskip, rOverlap,
                                                      rNsegments), rTdown)
            /\ rpc' = "read"
    /\ UNCHANGED <<rNints, rNskip, rOverlap, rNsegments, rTdown, rReadints,
                   rSpwReffreq, rSpwNchan, rMemLimit, rScaleNum, rScaleDen>>
    /\ UNCHANGED rRest

\* pipeline_dataprep line 147: data_read[:] = ..., an assignment into the
\* buffer of d['readints'] integrations; numpy refuses a shape it cannot
\* broadcast
DataprepAssign ==
    /\ rpc = "read"
    /\ IF rDelivered = rReadints \/ rDelivered = 1
       THEN rpc' = "assigned"
       ELSE rpc' = "valueerror"
    /\ UNCHANGED <<rNints, rNskip, rOverlap, rNsegments, rTdown, rReadints,
                   rSegment, rNskipRead, rDelivered, rSpwReffreq, rSpwNchan,
                   rChans, rMemLimit, rScaleNum, rScaleDen>>
    /\ UNCHANGED rRest

NextRead ==
    \/ calc_segment_times
    \/ AutoNsegments
    \/ FitIterate
    \/ CheckMemory
    \/ read_bdf_segment
    \/ DataprepAssign

(***************************************************************************)
(* Functions of the planner and of the candidate files, each called on its *)
(* own inputs                                                              *)
(***************************************************************************)
\* largest rangex and rangey tried, besides those around the largest size
MaxRange == 12

\* largest d['uvres']
MaxUvres == 2

\* set_pipeline, line 646: powers has 14 rows (2**i) and 10 columns (3**j)
Pow2Max == 13
Pow3Max == 9

Powers(i, j) == (2 ^ i) * (3 ^ j)

PowersMax == Powers(Pow2Max, Pow3Max)

PowerIndex == (0 .. Pow2Max) \X (0 .. Pow3Max)

RangeValues ==
    (0 .. MaxRange) \cup {PowersMax - 1, PowersMax, PowersMax + 1}

\* lines 649-650 and 653: n.where(powers - range/uvres > 0, powers,
\* powers[-1,-1]) with the integer division of Python 2, the positions of its
\* minimum in row order, and the size at the first of them
NpixFull(range, uvres) ==
    LET larger == [ij \in PowerIndex |->
                      IF Powers(ij[1], ij[2]) - (range \div uvres) > 0
                      THEN Powers(ij[1], ij[2])
                      ELSE PowersMax]
        least == MinOf({larger[ij] : ij \in PowerIndex})
        where == {ij \in PowerIndex : larger[ij] = least}
        p2 == MinOf({ij[1] : ij \in where})
        p3 == MinOf({ij[2] : ij \in {x \in where : x[1] = p2}})
    IN  Powers(p2, p3)

InitNpix ==
    /\ nRangex \in RangeValues
    /\ nRangey \in RangeValues
    /\ nUvres \in 1 .. MaxUvres
    /\ nNpixx = 0
    /\ nNpixy = 0

NpixIdle ==
    /\ nRangex = 0
    /\ nRangey = 0
    /\ nUvres = 1
    /\ nNpixx = 0
    /\ nNpixy = 0

\* set_pipeline, lines 643-654 (get_metadata, lines 97-108, with uvres_full)
SetNpixFull ==
    /\ uFn = "npix"
    /\ upc = "called"
    /\ nNpixx' = NpixFull(nRangex, nUvres)
    /\ nNpixy' = NpixFull(nRangey, nUvres)
    /\ upc' = "returned"
    /\ UNCHANGED <<uFn, nRangex, nRangey, nUvres>>
    /\ UNCHANGED <<dvars, bvars, mvars>>
    /\ UNCHANGED gvars
    /\ UNCHANGED uRest

\* largest mindm and maxdm, in steps of the trial grid
MaxDm == 4

\* largest negative maxdm, in steps of the trial grid
MaxNegDm == 2

\* largest DM step at which the loss passes maxloss
MaxGap == 2

\* line 889: n.arange(mindm, maxdm, 0.05), in steps of 0.05
Arange(mindm, maxdm) ==
    IF maxdm > mindm THEN [i \in 1 .. (maxdm - mindm) |-> mindm + i - 1]
    ELSE <<>>

\* lines 881-883 and 893-894: loss(dm, (dm - last)/2) > maxloss. The loss
\* grows with the distance from the last DM kept; it passes maxloss when the
\* distance is beyond gap
LossExceeds(dm, last, gap) == dm - last > gap

\* lines 891-895: the loop over the trial grid
RECURSIVE DmgridLoop(_, _, _, _)
DmgridLoop(dmgrid, i, dmgrid_final, gap) ==
    IF i > Len(dmgrid) THEN dmgrid_final
    ELSE IF LossExceeds(dmgrid[i], dmgrid_final[Len(dmgrid_final)], gap)
    THEN DmgridLoop(dmgrid, i + 1, Append(dmgrid_final, dmgrid[i]), gap)
    ELSE DmgridLoop(dmgrid, i + 1, dmgrid_final, gap)

InitDmgrid ==
    /\ dMindm \in 0 .. MaxDm
    /\ dMaxdm \in (-MaxNegDm) .. MaxDm
    /\ dGap \in 0 .. MaxGap
    /\ dGrid = <<>>

DmgridIdle ==
    /\ dMindm = 0
    /\ dMaxdm = 0
    /\ dGap = 0
    /\ dGrid = <<>>

\* calc_dmgrid, lines 868-897
calc_dmgrid ==
    /\ uFn = "dmgrid"
    /\ upc = "called"
    /\ IF dMaxdm = 0
       THEN /\ dGrid' = <<0>>
            /\ upc' = "returned"
       ELSE IF Arange(dMindm, dMaxdm) = <<>>
       THEN \* line 890: dmgrid[0] of an empty array, IndexError
            /\ dGrid' = <<>>
            /\ upc' = "raised"
       ELSE /\ dGrid' = DmgridLoop(Arange(dMindm, dMaxdm), 1,
                                   <<Arange(dMindm, dMaxdm)[1]>>, dGap)
            /\ upc' = "returned"
    /\ UNCHANGED <<uFn, dMindm, dMaxdm, dGap>>
    /\ UNCHANGED <<nvars, bvars, mvars>>
    /\ UNCHANGED gvars
    /\ UNCHANGED uRest

\* largest number of antennas
MaxAnts == 4

\* get_metadata, line 118: [[ants[i], ants[j]] for i in range(0, j)] for one j
RECURSIVE BlarrInner(_, _)
BlarrInner(i, j) ==
    IF i >= j THEN <<>> ELSE <<<<i, j>>>> \o BlarrInner(i + 1, j)

\* line 118: ... for j in range(nants) for i in range(0, j)
RECURSIVE Blarr(_, _)
Blarr(j, nants) ==
    IF j >= nants THEN <<>> ELSE BlarrInner(0, j) \o Blarr(j + 1, nants)

InitBlarr ==
    /\ bNants \in 0 .. MaxAnts
    /\ bBlarr = <<>>

BlarrIdle ==
    /\ bNants = 0
    /\ bBlarr = <<>>

\* get_metadata, lines 110-119
SetBlarr ==
    /\ uFn = "blarr"
    /\ upc = "called"
    /\ bBlarr' = Blarr(0, bNants)
    /\ upc' = "returned"
    /\ UNCHANGED <<uFn, bNants>>
    /\ UNCHANGED <<nvars, dvars, mvars>>
    /\ UNCHANGED gvars
    /\ UNCHANGED uRest

\* largest scan number
MaxScan == 2

\* set_pipeline, line 638: d['featureind'] of a scan's candidate file
Featureind == <<"segment", "int", "dmind", "dtind", "beamnum">>

\* the candidate keys a scan's file may hold
CandKeys == {<<0, 0, 0, 0, 0>>, <<1, 2, 0, 0, 0>>}

NoDicts == [k \in {} |-> 0]

\* merge_cands, lines 160-163: loc.insert(0, scan)
InsertScan(scan, loc) == <<scan>> \o loc

InitMerge ==
    /\ \E scans \in (SUBSET (1 .. MaxScan)) \ {{}} :
          mPkl \in [scans -> SUBSET CandKeys]
    /\ mFeatureind = Featureind
    /\ mDicts = NoDicts
    /\ mCands = {}

MergeIdle ==
    /\ mPkl = NoDicts
    /\ mFeatureind = Featureind
    /\ mDicts = NoDicts
    /\ mCands = {}

\* merge_cands, lines 136-210, with the default remove=[] and snr range:
\* segmenttimesdict and starttime_mjddict are filled for every scan (lines
\* 149-150); the state written gets 'scan' in front of featureind and the key
\* 'segmenttimesdict' (lines 196-198)
merge_cands ==
    /\ uFn = "merge"
    /\ upc = "called"
    /\ mCands' = UNION {{InsertScan(scan, loc) : loc \in mPkl[scan]} :
                           scan \in DOMAIN mPkl}
    /\ mFeatureind' = <<"scan">> \o mFeatureind
    /\ mDicts' = [k \in {"segmenttimesdict"} |->
                     [scan \in DOMAIN mPkl |-> <<"segmenttimes", scan>>]]
    /\ upc' = "returned"
    /\ UNCHANGED <<uFn, mPkl>>
    /\ UNCHANGED <<nvars, dvars, bvars>>
    /\ UNCHANGED gvars
    /\ UNCHANGED uRest

\* largest number of segments of a scan that left files
MaxMergeSegs == 2

\* merge_segments, line 68: list.sort() sorts in place and returns None
ListSort(segs) == "None"

InitMergeSegs ==
    /\ gCandslist \in SUBSET (0 .. (MaxMergeSegs - 1))
    /\ gNoiselist \in SUBSET (0 .. (MaxMergeSegs - 1))
    /\ gCleanup \in BOOLEAN
    /\ gMergedCands \in {"none", "old"}
    /\ gMergedNoise \in {"none", "old"}

MergeSegsIdle ==
    /\ gCandslist = {}
    /\ gNoiselist = {}
    /\ gCleanup = FALSE
    /\ gMergedCands = "none"
    /\ gMergedNoise = "none"

\* merge_segments, lines 55-118. The per-segment files are globbed, the
\* segment lists are compared, and unless a merged file exists or both lists
\* are empty the candidates and then the noise are aggregated and written;
\* with no candidates file the name state is unbound when the merged
\* candidates file, already opened for writing, is to be filled (line 97)
merge_segments ==
    /\ uFn = "mergesegs"
    /\ upc = "called"
    /\ IF ListSort(gCandslist) # ListSort(gNoiselist)
       THEN /\ upc' = "assertionerror"
            /\ UNCHANGED <<gCandslist, gNoiselist, gMergedCands, gMergedNoise>>
       ELSE IF gMergedCands # "none" \/ gMergedNoise # "none"
                  \/ (gCandslist = {} /\ gNoiselist = {})
       THEN /\ upc' = "returned"
            /\ UNCHANGED <<gCandslist, gNoiselist, gMergedCands, gMergedNoise>>
       ELSE IF gCandslist = {}
       THEN /\ upc' = "nameerror"
            /\ gMergedCands' = "empty"
            /\ UNCHANGED <<gCandslist, gNoiselist, gMergedNoise>>
       ELSE /\ upc' = "returned"
            /\ gMergedCands' = "merged"
            /\ gMergedNoise' = "merged"
            /\ IF gCleanup
               THEN gCandslist' = {} /\ gNoiselist' = {}
               ELSE UNCHANGED <<gCandslist, gNoiselist>>
    /\ UNCHANGED <<uFn, gCleanup>>
    /\ UNCHANGED <<nvars, dvars, bvars, mvars>>
    /\ UNCHANGED uRest

InitUtil ==
    /\ upc = "called"
    /\ \/ /\ uFn = "npix"
          /\ InitNpix /\ DmgridIdle /\ BlarrIdle /\ MergeIdle /\ MergeSegsIdle
       \/ /\ uFn = "dmgrid"
          /\ InitDmgrid /\ NpixIdle /\ BlarrIdle /\ MergeIdle /\ MergeSegsIdle
       \/ /\ uFn = "blarr"
          /\ InitBlarr /\ NpixIdle /\ DmgridIdle /\ MergeIdle /\ MergeSegsIdle
       \/ /\ uFn = "merge"
          /\ InitMerge /\ NpixIdle /\ DmgridIdle /\ BlarrIdle /\ MergeSegsIdle
       \/ /\ uFn = "mergesegs"
          /\ InitMergeSegs /\ NpixIdle /\ DmgridIdle /\ BlarrIdle /\ MergeIdle

UtilIdle ==
    /\ uFn = "none"
    /\ upc = "idle"
    /\ NpixIdle
    /\ DmgridIdle
    /\ BlarrIdle
    /\ MergeIdle
    /\ MergeSegsIdle

NextUtil ==
    \/ SetNpixFull
    \/ calc_dmgrid
    \/ SetBlarr
    \/ merge_cands
    \/ merge_segments

(***************************************************************************)
(* search(), task by task: the two pool maps of every (dm, dt) trial       *)
(*                                                                         *)
(* The buffers are followed per baseline and per integration by what was   *)
(* written to them, not by their visibility values.                        *)
(***************************************************************************)
MaxNbl == 3
MaxThread == 3
MaxTrialInts == 6
MaxTrialChunk == 3
\* candidates the imager returns for one chunk
MaxCands == 1

\* d['datadelay'] of a DM grid of one or two entries, increasing or not
TrialDelays == {<<0>>, <<0, 1>>, <<1, 0>>}

\* baseline ranges that share their end baseline with the next range
Blrange_Overlap(nbl, nthread, t) ==
    <<(nbl * t) \div nthread, (nbl * (t + 1)) \div nthread + 1>>

\* search, line 352: the baseline range (bl0, bl1) of dedispersion task t
Blrange(nbl, nthread, t) ==
    <<(nbl * t) \div nthread, (nbl * (t + 1)) \div nthread>>

\* the indices a Python slice [a:b] selects on an axis of the given length
SliceInts(a, b, length) ==
    {x \in 0 .. (length - 1) : SliceBound(a, length) <= x /\ x < SliceBound(b, length)}

\* resamp-buf as search allocates it, line 318
ResampZero(nbl) ==
    [bl \in 0 .. (nbl - 1) |-> [src |-> 0, trial |-> <<-1, -1>>, shifted |-> {}]]

TrialTasks == 0 .. (tNthread - 1)

TrialChunks == 0 .. (tNchunk - 1)

InitTrial ==
    /\ tSegment \in {0, 1}
    /\ tDtarr \in DtArrays
    /\ \/ /\ tNbl \in 0 .. MaxNbl
          /\ tNthread \in 1 .. MaxThread
          /\ tWork \in [0 .. (tNbl - 1) -> 0 .. 1]
          /\ tReadints = 1
          /\ tDatadelay = <<0>>
          /\ tNchunk = 1
          /\ tSearchtype \in Searchtypes
       \/ /\ tNbl = 2
          /\ tNthread \in 1 .. 2
          /\ tWork = [bl \in 0 .. 1 |-> 1]
          /\ tReadints \in 1 .. MaxTrialInts
          /\ tDatadelay \in TrialDelays
          /\ tNchunk \in 1 .. MaxTrialChunk
          /\ tSearchtype \in {"image1", "image1stats"}
    /\ tWork0 = tWork
    /\ tResamp = ResampZero(tNbl)
    /\ tpc = "start"
    /\ tDmind = 0
    /\ tDtind = 0
    /\ tDedispDone = {}
    /\ tImageDone = {}
    /\ tBlWrites = [bl \in 0 .. (tNbl - 1) |-> {}]
    /\ tImaged = {}
    /\ tWrites = {}
    /\ tTrials = <<>>
    /\ tCollected = <<>>

TrialIdle ==
    /\ tNbl = 0
    /\ tNthread = 1
    /\ tReadints = 1
    /\ tDatadelay = <<0>>
    /\ tDtarr = <<1>>
    /\ tNchunk = 1
    /\ tSegment = 0
    /\ tSearchtype = "image1"
    /\ tWork = <<>>
    /\ tWork0 = <<>>
    /\ tResamp = <<>>
    /\ tpc = "idle"
    /\ tDmind = 0
    /\ tDtind = 0
    /\ tDedispDone = {}
    /\ tImageDone = {}
    /\ tBlWrites = <<>>
    /\ tImaged = {}
    /\ tWrites = {}
    /\ tTrials = <<>>
    /\ tCollected = <<>>

\* lines 314-343: the buffers are viewed, resamp-buf is allocated and the
\* loops are entered when work-buf has a nonzero entry
TrialSearchBegin ==
    /\ tpc = "start"
    /\ IF \E bl \in DOMAIN tWork : tWork[bl] # 0
       THEN tpc' = "dedisperse"
       ELSE tpc' = "done"
    /\ UNCHANGED <<tNbl, tNthread, tReadints, tDatadelay, tDtarr, tNchunk,
                   tSegment, tSearchtype, tWork, tWork0, tResamp, tDmind,
                   tDtind, tDedispDone, tImageDone, tBlWrites, tImaged,
                   tWrites, tTrials, tCollected>>
    /\ UNCHANGED tRest

\* correct_dmdt without the refresh of line 838: resamp-buf is dedispersed as
\* the earlier trial left it
DedispTask_NoRefresh ==
    /\ tpc = "dedisperse"
    /\ \E t \in TrialTasks \ tDedispDone :
          LET blrange == Blrange(tNbl, tNthread, t)
              bls == SliceInts(blrange[1], blrange[2], tNbl)
          IN  /\ tResamp' = [bl \in DOMAIN tResamp |->
                                IF bl \in bls
                                THEN [tResamp[bl] EXCEPT !.trial = <<tDmind, tDtind>>]
                                ELSE tResamp[bl]]
              /\ tBlWrites' = [bl \in DOMAIN tBlWrites |->
                                  IF bl \in bls THEN tBlWrites[bl] \cup {t}
                                  ELSE tBlWrites[bl]]
              /\ tDedispDone' = tDedispDone \cup {t}
    /\ tTrials' = IF tDedispDone = {}
                  THEN Append(tTrials, <<tDmind, tDtind>>)
                  ELSE tTrials
    /\ UNCHANGED <<tNbl, tNthread, tReadints, tDatadelay, tDtarr, tNchunk,
                   tSegment, tSearchtype, tWork, tWork0, tpc, tDmind, tDtind,
                   tImageDone, tImaged, tWrites, tCollected>>
    /\ UNCHANGED tRest

\* correct_dmdt, lines 830-839, run by a pool worker for one baseline range of
\* the map of line 353: the range of resamp-buf is refreshed from work-buf
\* and dedispersed in place
DedispTask ==
    /\ tpc = "dedisperse"
    /\ \E t \in TrialTasks \ tDedispDone :
          LET blrange == Blrange(tNbl, tNthread, t)
              bls == SliceInts(blrange[1], blrange[2], tNbl)
          IN  /\ tResamp' = [bl \in DOMAIN tResamp |->
                                IF bl \in bls
                                THEN [src |-> tWork[bl],
                                      trial |-> <<tDmind, tDtind>>,
                                      shifted |-> {}]
                                ELSE tResamp[bl]]
              /\ tBlWrites' = [bl \in DOMAIN tBlWrites |->
                                  IF bl \in bls THEN tBlWrites[bl] \cup {t}
                                  ELSE tBlWrites[bl]]
              /\ tDedispDone' = tDedispDone \cup {t}
    /\ tTrials' = IF tDedispDone = {}
                  THEN Append(tTrials, <<tDmind, tDtind>>)
                  ELSE tTrials
    /\ UNCHANGED <<tNbl, tNthread, tReadints, tDatadelay, tDtarr, tNchunk,
                   tSegment, tSearchtype, tWork, tWork0, tpc, tDmind, tDtind,
                   tImageDone, tImaged, tWrites, tCollected>>
    /\ UNCHANGED tRest

\* a map that returns without waiting for its tasks
DedispReturn_Async ==
    /\ tpc = "dedisperse"
    /\ tDedispDone # {}
    /\ tpc' = "image"
    /\ UNCHANGED <<tNbl, tNthread, tReadints, tDatadelay, tDtarr, tNchunk,
                   tSegment, tSearchtype, tWork, tWork0, tResamp, tDmind,
                   tDtind, tDedispDone, tImageDone, tBlWrites, tImaged,
                   tWrites, tTrials, tCollected>>
    /\ UNCHANGED tRest

\* line 353: resamppool.map returns when every task of the map has returned
DedispReturn ==
    /\ tpc = "dedisperse"
    /\ tDedispDone = TrialTasks
    /\ tpc' = "image"
    /\ UNCHANGED <<tNbl, tNthread, tReadints, tDatadelay, tDtarr, tNchunk,
                   tSegment, tSearchtype, tWork, tWork0, tResamp, tDmind,
                   tDtind, tDedispDone, tImageDone, tBlWrites, tImaged,
                   tWrites, tTrials, tCollected>>
    /\ UNCHANGED tRest

\* image1, lines 899-970, run by a pool worker for one chunk of the map of
\* line 362: the chunk is imaged, and for every candidate the features are
\* extracted; specstd phase-shifts data_resamp[seli:seli+1] in place
ImageTask ==
    /\ tpc = "image"
    /\ \E chunk \in TrialChunks \ tImageDone :
          LET dt == tDtarr[tDtind + 1]
              irange == Irange(NskipDm(tDatadelay, tDtarr, tSegment, tDmind, tDtind),
                               Searchints(tReadints, tDatadelay, tDtarr,
                                          tSegment, tDmind, tDtind),
                               tNchunk, chunk)
              i0 == irange[1]
              ints == SliceInts(irange[1], irange[2], tReadints)
              lo == SliceBound(irange[1], tReadints)
          IN  \E candints \in {S \in SUBSET {x - lo : x \in ints} :
                                  Cardinality(S) <= MaxCands} :
                 LET written ==
                        IF "specstd" \in Range(Features(tSearchtype))
                        THEN UNION {SliceInts((i0 + c) * dt, (i0 + c) * dt + 1,
                                              tReadints) : c \in candints}
                        ELSE {}
                 IN  /\ tImaged' = tImaged \cup
                            {<<chunk, x, \E bl \in DOMAIN tResamp :
                                            x \in tResamp[bl].shifted>> : x \in ints}
                     /\ tWrites' = tWrites \cup {<<chunk, x>> : x \in written}
                     /\ tResamp' = [bl \in DOMAIN tResamp |->
                                       [tResamp[bl] EXCEPT !.shifted = @ \cup written]]
                     /\ tImageDone' = tImageDone \cup {chunk}
    /\ UNCHANGED <<tNbl, tNthread, tReadints, tDatadelay, tDtarr, tNchunk,
                   tSegment, tSearchtype, tWork, tWork0, tpc, tDmind, tDtind,
                   tDedispDone, tBlWrites, tTrials, tCollected>>
    /\ UNCHANGED tRest

\* lines 362-367 and 344-345: the imaging map returns, its results are
\* collected and the loops advance (dt inner, dm outer)
TrialCollect ==
    /\ tpc = "image"
    /\ tImageDone = TrialChunks
    /\ tCollected' = Append(tCollected, <<tDmind, tDtind>>)
    /\ tDedispDone' = {}
    /\ tImageDone' = {}
    /\ tBlWrites' = [bl \in DOMAIN tBlWrites |-> {}]
    /\ tImaged' = {}
    /\ tWrites' = {}
    /\ IF tDtind + 1 < Len(tDtarr)
       THEN /\ tDtind' = tDtind + 1
            /\ UNCHANGED tDmind
            /\ tpc' = "dedisperse"
       ELSE IF tDmind + 1 < Len(tDatadelay)
       THEN /\ tDtind' = 0
            /\ tDmind' = tDmind + 1
            /\ tpc' = "dedisperse"
       ELSE /\ UNCHANGED <<tDmind, tDtind>>
            /\ tpc' = "done"
    /\ UNCHANGED <<tNbl, tNthread, tReadints, tDatadelay, tDtarr, tNchunk,
                   tSegment, tSearchtype, tWork, tWork0, tResamp, tTrials>>
    /\ UNCHANGED tRest

NextTrial ==
    \/ TrialSearchBegin
    \/ DedispTask
    \/ DedispReturn
    \/ ImageTask
    \/ TrialCollect

NextPipeline ==
    \/ Submit
    \/ While
    \/ Poll
    \/ SearchStart
    \/ SearchEnd
    \/ Save
    \/ Interrupt
    \/ PrepRead
    \/ PrepCondition
    \/ PrepCalFails
    \/ PrepCopy
    \/ PrepReturn
    \/ OtherWriter

Init == InitPipeline /\ SearchIdle /\ ReadIdle /\ UtilIdle /\ TrialIdle

Next == NextPipeline

Spec == Init /\ [][Next]_vars

\* pipeline() absent errors and interrupts: the calibration does not fail, no
\* KeyboardInterrupt arrives and no other process writes candidate files.
\* The main process and the pool worker are two operating-system processes,
\* each scheduled again and again; a process waiting for a lock gets it once
\* the lock stays free.
InitFair == Init /\ gainfile # "bad"

MainStep == Submit \/ While \/ Poll \/ SearchStart \/ SearchEnd \/ Save

WorkerStep == PrepRead \/ PrepCondition \/ PrepCopy \/ PrepReturn

NextFair ==
    \/ Submit
    \/ While
    \/ Poll
    \/ SearchStart
    \/ SearchEnd
    \/ Save
    \/ PrepRead
    \/ PrepCondition
    \/ PrepCopy
    \/ PrepReturn

SpecFair ==
    InitFair /\ [][NextFair]_vars /\ WF_vars(MainStep) /\ WF_vars(WorkerStep)

\* pipeline() is at rest while search() is examined
PipelineIdle ==
    /\ segments = <<0>>
    /\ savecandsOpt = FALSE
    /\ gainfile = "absent"
    /\ dseg = NoSegment
    /\ files = [s \in SegIds |-> NoFile]
    /\ results = [s \in {} |-> "pending"]
    /\ jobq = <<>>
    /\ wpc = "idle"
    /\ wseg = NoSegment
    /\ readbuf = ZeroBuf
    /\ workbuf = ZeroBuf
    /\ lockRead = "free"
    /\ lockData = "free"
    /\ mpc = "idle"
    /\ subi = 1
    /\ keys = <<>>
    /\ kpos = 1
    /\ cands = NoCands
    /\ searched = {}
    /\ searchdone = {}
    /\ saved = {}
    /\ submitted = {}
    /\ nprep = [s \in SegIds |-> 0]
    /\ nsearch = [s \in SegIds |-> 0]

InitS == InitSearch /\ PipelineIdle /\ ReadIdle /\ UtilIdle /\ TrialIdle

NextS == NextSearch

SpecSearch == InitS /\ [][NextS]_vars

InitR == InitRead /\ PipelineIdle /\ SearchIdle /\ UtilIdle /\ TrialIdle

NextR == NextRead

SpecRead == InitR /\ [][NextR]_vars

InitU == InitUtil /\ PipelineIdle /\ SearchIdle /\ ReadIdle /\ TrialIdle

NextU == NextUtil

SpecUtil == InitU /\ [][NextU]_vars

InitT == InitTrial /\ PipelineIdle /\ SearchIdle /\ ReadIdle /\ UtilIdle

NextT == NextTrial

SpecTrial == InitT /\ [][NextT]_vars

(***************************************************************************)
(* Claims about pipeline()                                                 *)
(***************************************************************************)
\* C1: whenever search runs for segment k (d['segment'] of the state the prep
\* job of k returned), work-buf holds the data pipeline_dataprep copied for
\* segment k.
C1_SearchReadsOwnSegment ==
    mpc = "search" => workbuf.seg = dseg

\* C2: with savecands set, a segment that search skipped because its candidates
\* file exists is not handed to savecands: the file is left as it is.
C2_ExistingFileKept ==
    [][(mpc = "save" /\ cands.skipped) => files'[dseg] = files[dseg]]_vars

\* C3: segments are searched in increasing index: when the search of a segment
\* runs, no segment of higher index has been searched before it.
C3_SearchInIncreasingOrder ==
    mpc = "search" => \A s \in searched : s <= dseg

\* C5: on KeyboardInterrupt the reader pool is stopped and the pipeline ends;
\* savecands has run only for segments whose search had returned, and nothing
\* is saved afterwards.
C5_CancelDiscardsInFlight ==
    /\ [](mpc = "aborted" => (wpc = "terminated" /\ saved \subseteq searchdone))
    /\ [][mpc = "aborted" =>
            /\ mpc' = "aborted"
            /\ saved' = saved
            /\ \A s \in SegIds :
                  files'[s].kind = "pipeline" => files'[s] = files[s]]_vars

\* C5 witness: the interrupt arrived during the search of one segment, after
\* the record of an earlier segment had been written
C5_Witness ==
    /\ mpc = "aborted"
    /\ searched \ searchdone # {}
    /\ saved # {}

\* C6: a gain file that exists but cannot be parsed or applied aborts neither
\* the prep job nor the pipeline.
C6_CalFailureRecoverable ==
    gainfile = "bad" =>
        /\ mpc # "failed"
        /\ \A s \in DOMAIN results : results[s] # "error"


(***************************************************************************)
(* Claims about search()                                                   *)
(***************************************************************************)
\* calc_segment_times, lines 790-791: consecutive segments start a span minus
\* the overlap apart; with whole spans and no downsampling the span is
\* d['readints'] and the overlap is the largest data delay
SegmentStart(readints, datadelay, segment) ==
    segment * (readints - MaxOf(Range(datadelay)))

\* first scan integration imaged by a segment in a trial
ImagedFrom(readints, datadelay, dtarr, segment, dmind, dtind) ==
    SegmentStart(readints, datadelay, segment)
        + NskipDm(datadelay, dtarr, segment, dmind, dtind) * dtarr[dtind + 1]

\* C4: for every DM index and dt, the scan integrations imaged by segment k end
\* exactly where those imaged by segment k+1 begin (no gap, no overlap). Stated
\* for a DM grid in increasing order and segments that advance by at least one
\* resampled integration.
C4_OverlapCoverage ==
    (/\ spc = "image"
     /\ IsIncreasing(sDatadelay)
     /\ sReadints >= MaxOf(Range(sDatadelay)) + sDtarr[sDtind + 1])
    => SegmentStart(sReadints, sDatadelay, sSegment)
          + (sRange[1] + sRange[2]) * sDtarr[sDtind + 1]
       = ImagedFrom(sReadints, sDatadelay, sDtarr, sSegment + 1, sDmind, sDtind)

\* C7: with searchtype image2 or image2w every candidate search emits comes
\* from an integration whose second-stage image passes sigma_image2.
C7_TwoStageReject ==
    sSearchtype \in {"image2", "image2w"} =>
        \A kk \in DOMAIN sCands : PassesStage2(sCands[kk].content)

\* C8: every candidate carries one value per declared feature, in the declared
\* order, and so has the snr column read_candidates selects.
C8_FeaturesAsDeclared ==
    \A kk \in DOMAIN sCands :
        /\ sCands[kk].ff = Features(sSearchtype)
        /\ SnrCol(Features(sSearchtype)) <= Len(sCands[kk].ff)

\* C9: no candidate key is produced twice within one segment's search: merging
\* the chunk results never replaces an entry of the candidate map.
C9_KeysUnique ==
    sReplaced = FALSE

\* C9 witness: two chunks of one trial both found candidates, and the map
\* already holds candidates of an earlier trial
C9_Witness ==
    /\ spc = "image"
    /\ sNchunk >= 2
    /\ DOMAIN sImageresults = 0 .. (sNchunk - 1)
    /\ DOMAIN sImageresults[0] # {}
    /\ DOMAIN sImageresults[1] # {}
    /\ DOMAIN sCands # {}

(***************************************************************************)
(* Claims about the segment reader                                         *)
(***************************************************************************)
\* C10: for every segment and every read_tdownsample >= 1, read_bdf_segment
\* delivers exactly d['readints'] integrations.
C10_DeliversReadints ==
    rpc = "read" => rDelivered = rReadints

\* C11: when the spw reference frequencies have exactly one negative jump, the
\* channel axis read_bdf_segment returns is in increasing frequency order.
C11_RollSortsSpw ==
    (/\ rpc = "read"
     /\ Cardinality(NegativeJumps(Dfreq(rSpwReffreq))) = 1)
    => FreqSorted(rChans)

\* C12: with nsegments unset and memory_limit set, the fitting iteration
\* terminates: once nsegments is at its maximum (nints) and the visibilities
\* still exceed the limit, the planner reports that the plan does not fit
\* rather than iterating again.
C12_FitTerminates ==
    [][(/\ rpc = "fitting"
        /\ rNsegments = rNints - rNskip
        /\ Vismem(rReadints) > rMemLimit)
       => rpc' = "planinfeasible"]_vars

\* C13: for every planned state, the sum of the segment spans minus
\* (nsegments-1) overlaps equals the scan duration to within one integration
\* (the scan counted from its start or from the first integration not
\* skipped).
C13_SpansCoverScan ==
    rpc = "planned" =>
        LET covered == SpanNum(rNints, rNskip, rOverlap, rNsegments)
                          - (rNsegments - 1) * rOverlap
        IN  \/ Abs(covered - rNints) <= 1
            \/ Abs(covered - (rNints - rNskip)) <= 1

\* C14: every planned segment spans at least max(datadelay)*inttime plus
\* t_overlap, i.e. twice the overlap. Stated for scans long enough for one
\* segment of that span.
C14_MinSegmentSpan ==
    (/\ rpc = "planned"
     /\ (rNints - rNskip) - rNskip >= 2 * rOverlap) =>
        SpanNum(rNints, rNskip, rOverlap, rNsegments)
            >= 2 * rOverlap * rNsegments

\* C15: when work-buf is all zeros, search runs no dedispersion or imaging
\* trial and returns an empty candidate map, and with savecands set the
\* pipeline writes the state followed by an empty candidate map.
C15_EmptyData ==
    (\A i \in DOMAIN sWork : sWork[i] = 0) =>
        /\ spc \notin {"dedisperse", "image"}
        /\ sCands = EmptyDict
        /\ (spc = "end" /\ sSavecands) => sFile = <<"d", EmptyDict>>

\* an all-zero segment has been searched and saved
C15_Witness ==
    /\ \A i \in DOMAIN sWork : sWork[i] = 0
    /\ spc = "end"
    /\ sSavecands
    /\ sFile = <<"d", EmptyDict>>

(***************************************************************************)
(* Claims about the functions of the planner and of the candidate files    *)
(***************************************************************************)
\* the smallest 2^a*3^b (a <= 13, b <= 9) that is at least range/uvres, the
\* largest one if there is none
SmallestPowerAtLeast(range, uvres) ==
    LET fit == {Powers(ij[1], ij[2]) : ij \in
                   {x \in PowerIndex : Powers(x[1], x[2]) * uvres >= range}}
    IN  IF fit = {} THEN PowersMax ELSE MinOf(fit)

\* C16: npixx_full and npixy_full are the smallest 2^a*3^b that is greater
\* than or equal to the required size, also when the requirement is itself
\* of that form, and the largest such number when the requirement exceeds it.
C16_NpixSmallestPower ==
    (uFn = "npix" /\ upc = "returned") =>
        /\ nNpixx = SmallestPowerAtLeast(nRangex, nUvres)
        /\ nNpixy = SmallestPowerAtLeast(nRangey, nUvres)

\* C17: calc_dmgrid returns without an error; when maxdm > 0 the grid is
\* strictly increasing and starts at mindm, otherwise it is [0].
C17_DmgridShape ==
    (uFn = "dmgrid" /\ upc # "called") =>
        /\ upc = "returned"
        /\ IF dMaxdm > 0
           THEN /\ dGrid # <<>>
                /\ dGrid[1] = dMindm
                /\ IsIncreasing(dGrid)
           ELSE dGrid = <<0>>

\* the pairs (i, j), i < j, of 0 .. nants-1 in lexicographic order
RECURSIVE LexPairs(_, _, _)
LexPairs(i, j, nants) ==
    IF i >= nants - 1 THEN <<>>
    ELSE IF j >= nants THEN LexPairs(i + 1, i + 2, nants)
    ELSE <<<<i, j>>>> \o LexPairs(i, j + 1, nants)

\* C18: the baseline list is the lexicographically ordered list of pairs
\* (ants[i], ants[j]) with i < j, each pair once, nbl = nants*(nants-1)/2.
C18_BaselinesLexicographic ==
    (uFn = "blarr" /\ upc = "returned") =>
        /\ bBlarr = LexPairs(0, 1, bNants)
        /\ 2 * Len(bBlarr) = bNants * (bNants - 1)

\* C19: the record merge_cands writes has 'scan' as the leading field of
\* featureind and of every candidate key, and its state holds
\* segmenttimesdict[scan] and starttime_mjddict[scan] for every merged scan.
C19_MergedRecord ==
    (uFn = "merge" /\ upc = "returned") =>
        /\ mFeatureind[1] = "scan"
        /\ \A kk \in mCands : kk[1] \in DOMAIN mPkl
        /\ \A k \in {"segmenttimesdict", "starttime_mjddict"} :
              /\ k \in DOMAIN mDicts
              /\ DOMAIN mPkl \subseteq DOMAIN mDicts[k]

(***************************************************************************)
(* More claims about pipeline()                                            *)
(***************************************************************************)
\* C20: the reader cannot run away from the searcher: the copy of a segment
\* into work-buf completes only after the search of the segment copied before
\* it has started.
C20_ReaderCannotRunAway ==
    [][(workbuf'.seg # workbuf.seg /\ workbuf.seg # NoSegment)
       => workbuf.seg \in searched]_vars


\* C21: the worker's copy into work-buf and a search of work-buf never
\* overlap: the worker is inside its copy only while it holds data_mem's
\* lock, the main process is inside search only while it holds that lock,
\* and the two are never inside at the same time.
C21_WorkbufMutex ==
    /\ ~(wpc = "copied" /\ mpc = "search")
    /\ (wpc = "copied" => lockData = "worker")
    /\ (mpc = "search" => lockData = "main")

\* the worker has a conditioned segment and waits for the lock while the
\* main process searches
C21_Witness ==
    wpc = "cond" /\ mpc = "search" /\ lockData = "main"

LexTrials ==
    [k \in 1 .. (Len(tDatadelay) * Len(tDtarr)) |->
        <<(k - 1) \div Len(tDtarr), (k - 1) % Len(tDtarr)>>]

\* C23: the trials run in dm-outer, dt-inner order; an imaging task of a
\* trial returns only when all dedispersion tasks of that trial have
\* returned, and a dedispersion task of a trial writes resamp-buf only when
\* all imaging tasks of every earlier trial have returned and their results
\* have been collected.
C23_TrialOrder ==
    /\ [](/\ tTrials = SubSeq(LexTrials, 1, Len(tTrials))
          /\ tCollected = SubSeq(tTrials, 1, Len(tCollected)))
    /\ [][/\ (tImageDone' # tImageDone /\ tImageDone' # {}) =>
                /\ tDedispDone = TrialTasks
                /\ tTrials = Append(tCollected, <<tDmind, tDtind>>)
          /\ (tDedispDone' # tDedispDone /\ tDedispDone' # {}) =>
                /\ tImageDone = {}
                /\ tTrials' = Append(tCollected, <<tDmind, tDtind>>)]_vars

\* the last trial of a two by two grid is being imaged by two tasks after
\* two dedispersion tasks
C23_Witness ==
    /\ tpc = "image"
    /\ tNthread = 2
    /\ tNchunk >= 2
    /\ Cardinality(tImageDone) = 1
    /\ tTrials = <<<<0, 0>>, <<0, 1>>, <<1, 0>>, <<1, 1>>>>

\* C24: the baseline ranges of the dedispersion map start at 0, end at nbl,
\* each begins where the one before ends, and none is reversed; no baseline
\* is written by two tasks of a trial, and when the map has returned every
\* baseline was refreshed from work-buf by exactly one task.
C24_BlrangesPartition ==
    /\ tpc # "idle" =>
          /\ Blrange(tNbl, tNthread, 0)[1] = 0
          /\ Blrange(tNbl, tNthread, tNthread - 1)[2] = tNbl
          /\ \A t \in TrialTasks :
                /\ Blrange(tNbl, tNthread, t)[1] <= Blrange(tNbl, tNthread, t)[2]
                /\ t + 1 \in TrialTasks =>
                      Blrange(tNbl, tNthread, t)[2] = Blrange(tNbl, tNthread, t + 1)[1]
    /\ \A bl \in DOMAIN tBlWrites : Cardinality(tBlWrites[bl]) <= 1
    /\ tpc = "image" =>
          \A bl \in DOMAIN tBlWrites :
             /\ Cardinality(tBlWrites[bl]) = 1
             /\ tResamp[bl].src = tWork[bl]
             /\ tResamp[bl].trial = <<tDmind, tDtind>>

\* three baselines have been dedispersed by two tasks, one baseline by the
\* first and two by the second
C24_Witness ==
    /\ tpc = "image"
    /\ tNbl = 3
    /\ tNthread = 2
    /\ tBlWrites = [bl \in 0 .. 2 |-> IF bl = 0 THEN {0} ELSE {1}]

\* the integration range of the trial, lines 356-357
TrialNskip == NskipDm(tDatadelay, tDtarr, tSegment, tDmind, tDtind)

TrialSearchints ==
    Searchints(tReadints, tDatadelay, tDtarr, tSegment, tDmind, tDtind)

\* C25: when searchints >= 0 the chunk ranges start at nskip_dm, end at
\* nskip_dm + searchints, each begins where the one before ends and none is
\* reversed; and when the imaging map of a trial has returned, every
\* integration of the buffer within [nskip_dm, nskip_dm + searchints) has been
\* imaged by exactly one task.
C25_ChunksImageOnce ==
    (tpc = "image" /\ TrialSearchints >= 0) =>
        /\ Irange(TrialNskip, TrialSearchints, tNchunk, 0)[1] = TrialNskip
        /\ Irange(TrialNskip, TrialSearchints, tNchunk, tNchunk - 1)[2] =
              TrialNskip + TrialSearchints
        /\ \A c \in TrialChunks :
              /\ Irange(TrialNskip, TrialSearchints, tNchunk, c)[1] <=
                    Irange(TrialNskip, TrialSearchints, tNchunk, c)[2]
              /\ c + 1 \in TrialChunks =>
                    Irange(TrialNskip, TrialSearchints, tNchunk, c)[2] =
                       Irange(TrialNskip, TrialSearchints, tNchunk, c + 1)[1]
        /\ tImageDone = TrialChunks =>
              \A x \in 0 .. (tReadints - 1) :
                 (TrialNskip <= x /\ x < TrialNskip + TrialSearchints) =>
                    Cardinality({c \in TrialChunks :
                                    \E b \in BOOLEAN : <<c, x, b>> \in tImaged}) = 1

\* C26: in every trial the imaged range starts at or after the buffer start,
\* ends at the dedispersion edge (readints - datadelay[dmind]) / dt and is not
\* reversed, and no imaging task images an integration outside it.
C26_ImagedRangeInside ==
    tpc = "image" =>
        /\ 0 <= TrialNskip
        /\ TrialSearchints >= 0
        /\ TrialNskip + TrialSearchints <=
              (tReadints - tDatadelay[tDmind + 1]) \div tDtarr[tDtind + 1]
        /\ \A r \in tImaged :
              TrialNskip <= r[2] /\ r[2] < TrialNskip + TrialSearchints

\* C27: with an increasing DM grid, an imaging task writes resamp-buf only at
\* integrations of its own chunk range [i0, i1), and no integration is
\* imaged after another task of the trial has written it.
C27_ImageWritesOwnChunk ==
    IsIncreasing(tDatadelay) =>
        /\ \A wr \in tWrites :
              LET irange == Irange(TrialNskip, TrialSearchints, tNchunk, wr[1])
              IN  irange[1] <= wr[2] /\ wr[2] < irange[2]
        /\ \A r \in tImaged : r[3] = FALSE

\* C28: work-buf keeps, through the whole search, the content it had when
\* search was called; and when the dedispersion map of a trial has returned,
\* resamp-buf is, on every baseline, the dedispersed copy of work-buf for
\* that trial, with nothing left of what earlier trials wrote.
C28_WorkbufUntouched ==
    /\ tWork = tWork0
    /\ (tpc = "image" /\ tImageDone = {}) =>
          \A bl \in DOMAIN tResamp :
             tResamp[bl] = [src |-> tWork0[bl],
                            trial |-> <<tDmind, tDtind>>,
                            shifted |-> {}]

\* a later trial is being dedispersed: one baseline is refreshed, the other
\* still holds what an imaging task of the earlier trial wrote
C28_Witness ==
    /\ tpc = "dedisperse"
    /\ tCollected # <<>>
    /\ \E bl \in DOMAIN tResamp :
          tResamp[bl].trial = <<tDmind, tDtind>> /\ tResamp[bl].shifted = {}
    /\ \E bl \in DOMAIN tResamp :
          tResamp[bl].trial # <<tDmind, tDtind>> /\ tResamp[bl].shifted # {}

(***************************************************************************)
(* Further claims about pipeline() and the candidate files                 *)
(***************************************************************************)
\* C29: the existence test of the submission loop is made on the candidates
\* file of the segment being submitted: with savecands set, segment s is
\* submitted exactly when the file of segment s does not exist.
C29_ChecksOwnFile ==
    [][(mpc = "submit" /\ subi' = subi + 1) =>
          ((segments[subi] \in submitted') <=>
              ~(savecandsOpt /\ exists(segments[subi])))]_vars

\* C30: when the segments that have candidates files differ from those that
\* have noise files, merge_segments ends with an assertion error and neither
\* writes a merged file nor removes a per-segment file.
C30_MergeRefusesMismatch ==
    [][(uFn = "mergesegs" /\ upc = "called" /\ gCandslist # gNoiselist) =>
          /\ upc' = "assertionerror"
          /\ UNCHANGED <<gCandslist, gNoiselist, gMergedCands, gMergedNoise>>]_vars
====
